---- MODULE Spec2Model ----
(***************************************************************************)
(* Model of the image cache of short-video-maker:                          *)
(*   - FileCache             (src/unnamed/part_002)                        *)
(*   - CachedOpenAIImagesAPI (src/src/short-creator/libraries/             *)
(*                            CachedOpenAIImages.ts)                       *)
(*   - OpenAIImagesAPI       (src/unnamed/part_004)                        *)
(*                                                                         *)
(* Strings are sequences of one-character strings wherever the code looks  *)
(* at their characters (search terms, cache keys, media subtypes, base64   *)
(* payloads).  A data URL is kept as the record of the parts the code      *)
(* concatenates and the regular expression of setFromDataUrl takes apart.  *)
(***************************************************************************)
EXTENDS Integers, Sequences, FiniteSets, TLC

(***************************************************************************)
(* Bounds of the model                                                     *)
(***************************************************************************)
\* number of findVideo calls of the wrapper that may overlap
MaxCalls == 2
\* number of one-millisecond steps of the clock within a TTL period
MaxSmallTicks == 1
\* number of whole-TTL steps of the clock
MaxBigTicks == 1
\* number of filesystem calls that fail
MaxFaults == 1

(***************************************************************************)
(* Characters                                                              *)
(***************************************************************************)
LowerChars ==
  <<"a","b","c","d","e","f","g","h","i","j","k","l","m",
    "n","o","p","q","r","s","t","u","v","w","x","y","z">>

UpperChars ==
  <<"A","B","C","D","E","F","G","H","I","J","K","L","M",
    "N","O","P","Q","R","S","T","U","V","W","X","Y","Z">>

DigitChars == <<"0","1","2","3","4","5","6","7","8","9">>

Range(s) == { s[i] : i \in DOMAIN s }

Letters == Range(LowerChars) \cup Range(UpperChars)

Digits == Range(DigitChars)

\* the lower-case letter of every upper-case letter
LowerOf ==
  [ ch \in Range(UpperChars) |->
      LowerChars[CHOOSE i \in DOMAIN UpperChars : UpperChars[i] = ch] ]

\* String.prototype.toLowerCase on one character
ToLowerChar(ch) == IF ch \in DOMAIN LowerOf THEN LowerOf[ch] ELSE ch

toLowerCase(s) == [ i \in DOMAIN s |-> ToLowerChar(s[i]) ]

\* the class [a-z0-9-] under the flag i
KeyChars == Letters \cup Digits \cup { "-" }

\* the class \w
WordChars == Letters \cup Digits \cup { "_" }

IsWordChar(ch) == ch \in WordChars

\* the characters that "." does not match (no flag s)
LineTerminators == { "\n", "\r" }

RECURSIVE Filter(_, _)
Filter(s, keep) ==
  IF s = <<>> THEN <<>>
  ELSE (IF Head(s) \in keep THEN <<Head(s)>> ELSE <<>>) \o Filter(Tail(s), keep)

\* Array.prototype.join
RECURSIVE join(_, _)
join(strs, sep) ==
  IF strs = <<>> THEN <<>>
  ELSE IF Len(strs) = 1 THEN strs[1]
  ELSE strs[1] \o sep \o join(Tail(strs), sep)

(***************************************************************************)
(* Orientation                                                             *)
(***************************************************************************)
portrait == <<"p","o","r","t","r","a","i","t">>

landscape == <<"l","a","n","d","s","c","a","p","e">>

OrientationEnum == { portrait, landscape }

\* getOrientationConfig of components/utils: the target dimensions
getOrientationConfig(orientation) ==
  IF orientation = portrait
    THEN [ width |-> 1080, height |-> 1920 ]
    ELSE [ width |-> 1920, height |-> 1080 ]

(***************************************************************************)
(* Key derivation of CachedOpenAIImagesAPI.findVideo                       *)
(***************************************************************************)
\* .replace(/[^a-z0-9-]/gi, "")
StripNonKeyChars(s) == Filter(s, KeyChars)

\* a key made of the search terms alone
cacheKeyOfTerms(searchTerms, orientation) ==
  toLowerCase(StripNonKeyChars(join(searchTerms, <<"-">>)))

cacheKey(searchTerms, orientation) ==
  toLowerCase(StripNonKeyChars(join(searchTerms, <<"-">>) \o <<"-">> \o orientation))

(***************************************************************************)
(* Base64 decoding of Buffer.from(s, "base64"): characters outside the     *)
(* alphabet (white space) are skipped, every four sextets give three       *)
(* bytes, a rest of two or three sextets gives one or two bytes.           *)
(***************************************************************************)
Base64Alphabet ==
  UpperChars \o LowerChars \o DigitChars \o <<"+", "/">>

\* the six-bit value of every character of the alphabet
Base64Value ==
  [ ch \in Range(Base64Alphabet) |->
      (CHOOSE i \in DOMAIN Base64Alphabet : Base64Alphabet[i] = ch) - 1 ]

Sextets(s) ==
  LET valid == Filter(s, DOMAIN Base64Value)
  IN  [ i \in DOMAIN valid |-> Base64Value[valid[i]] ]

RECURSIVE SextetsToBytes(_)
SextetsToBytes(v) ==
  IF Len(v) < 2 THEN <<>>
  ELSE LET b1 == (v[1] * 4 + (v[2] \div 16)) % 256
       IN IF Len(v) = 2 THEN <<b1>>
          ELSE LET b2 == ((v[2] % 16) * 16 + (v[3] \div 4)) % 256
               IN IF Len(v) = 3 THEN <<b1, b2>>
                  ELSE <<b1, b2, ((v[3] % 4) * 64 + v[4]) % 256>>
                       \o SextetsToBytes(SubSeq(v, 5, Len(v)))

Base64Decode(s) == SextetsToBytes(Sextets(s))

\* the texts Buffer.from(s, "base64") decodes without skipping a character
IsBase64(s) ==
  /\ s # <<>>
  /\ \A i \in DOMAIN s : s[i] \in Range(Base64Alphabet)

(***************************************************************************)
(* URLs                                                                    *)
(***************************************************************************)
\* `data:${mime}/${format};${enc},${payload}`
DataUrl(mime, format, enc, payload) ==
  [ scheme |-> "data", mime |-> mime, format |-> format, enc |-> enc,
    payload |-> payload, path |-> <<>> ]

\* `file://${filePath}`
FileUrl(filePath) ==
  [ scheme |-> "file", mime |-> "", format |-> <<>>, enc |-> "",
    payload |-> <<>>, path |-> filePath ]

png == <<"p","n","g">>

jpeg == <<"j","p","e","g">>

\* a pattern that admits the subtype jpeg only
MatchesDataUrlJpeg(dataUrl) ==
  /\ dataUrl.scheme = "data"
  /\ dataUrl.mime = "image"
  /\ dataUrl.format = jpeg
  /\ dataUrl.enc = "base64"
  /\ dataUrl.payload # <<>>
  /\ \A i \in DOMAIN dataUrl.payload : dataUrl.payload[i] \notin LineTerminators

\* dataUrl.match(/^data:image\/(\w+);base64,(.+)$/)
MatchesDataUrl(dataUrl) ==
  /\ dataUrl.scheme = "data"
  /\ dataUrl.mime = "image"
  /\ dataUrl.format # <<>>
  /\ \A i \in DOMAIN dataUrl.format : IsWordChar(dataUrl.format[i])
  /\ dataUrl.enc = "base64"
  /\ dataUrl.payload # <<>>
  /\ \A i \in DOMAIN dataUrl.payload : dataUrl.payload[i] \notin LineTerminators

(***************************************************************************)
(* FileCache (src/unnamed/part_002).  A store is the record                *)
(*   index    the Map of the object, a sequence of entries in insertion    *)
(*            order                                                        *)
(*   indexDoc the document index.json                                      *)
(*   files    the blob files of the cache directory, path -> bytes         *)
(* The outcome of every filesystem call that can fail is an input: "ok",   *)
(* "fail" (nothing written) and "torn": the file was opened for writing    *)
(* and truncated, and the write failed after that; a torn index document   *)
(* is no longer readable, a torn blob file is left empty.                  *)
(***************************************************************************)
defaultTTL == 7 * 24 * 60 * 60 * 1000

\* writeJsonSync of index.json
SaveOutcomes == { "ok", "fail", "torn" }

\* writeFileSync of a blob file
WriteOutcomes == { "ok", "fail", "torn" }

UnlinkOutcomes == { "ok", "fail" }

\* statSync of a blob file
StatOutcomes == { "ok", "fail" }

\* crypto.createHash("md5").update(id).digest("hex"): one name per id
Md5(id) == <<"md5:">> \o id

\* path.join(this.cacheDir, `${hash}.${format}`)
FilePathOf(id, format) == Md5(id) \o <<".">> \o format

IndexIds(index) == { index[i].id : i \in DOMAIN index }

IndexGet(index, id) ==
  index[CHOOSE i \in DOMAIN index : index[i].id = id]

\* a set that keeps the entry a key already has
IndexSetIfAbsent(index, entry) ==
  IF entry.id \in IndexIds(index) THEN index ELSE Append(index, entry)

\* a set that adds an entry without replacing the one the key has
IndexSetAppend(index, entry) == Append(index, entry)

\* a set that drops the entries of the other keys
IndexSetAlone(index, entry) == << entry >>

\* Map.prototype.set: an existing key keeps its position
IndexSet(index, entry) ==
  IF entry.id \in IndexIds(index)
    THEN [ i \in DOMAIN index |-> IF index[i].id = entry.id THEN entry ELSE index[i] ]
    ELSE Append(index, entry)

\* Map.prototype.get as a list: the entry of id, or nothing
EntryOf(index, id) == IF id \in IndexIds(index) THEN << IndexGet(index, id) >> ELSE <<>>

\* Map.prototype.delete
IndexDelete(index, id) == SelectSeq(index, LAMBDA e : e.id # id)

NoDoc == [ kind |-> "absent", data |-> <<>> ]

CorruptDoc == [ kind |-> "corrupt", data |-> <<>> ]

JsonDoc(index) == [ kind |-> "json", data |-> index ]

RemoveFile(files, filePath) ==
  [ p \in DOMAIN files \ {filePath} |-> files[p] ]

PutFile(files, filePath, bytes) ==
  [ p \in DOMAIN files \cup {filePath} |-> IF p = filePath THEN bytes ELSE files[p] ]

\* a constructor that does not read the document
loadIndexFresh(doc) == <<>>

\* a loadIndex that, the document being unreadable, takes one png entry per
\* key the wrapper derives
loadIndexGuess(doc) ==
  IF doc.kind = "json" THEN doc.data
  ELSE IF doc.kind = "absent" THEN <<>>
  ELSE << [ id        |-> <<"c","a","t","-","p","o","r","t","r","a","i","t">>,
            filePath  |-> FilePathOf(<<"c","a","t","-","p","o","r","t","r","a","i","t">>, png),
            createdAt |-> 0,
            ttl       |-> defaultTTL ],
          [ id        |-> <<"c","a","t","-","l","a","n","d","s","c","a","p","e">>,
            filePath  |-> FilePathOf(<<"c","a","t","-","l","a","n","d","s","c","a","p","e">>, png),
            createdAt |-> 0,
            ttl       |-> defaultTTL ] >>

\* loadIndex: a missing document leaves the empty Map, an unreadable one too
loadIndex(indexDoc) ==
  IF indexDoc.kind = "json" THEN indexDoc.data ELSE <<>>

\* a saveIndex that writes no document for an index without entries
saveIndexUnlessEmpty(st, sv) ==
  IF st.index = <<>> THEN st
  ELSE [ st EXCEPT !.indexDoc =
           CASE sv = "ok"   -> JsonDoc(st.index)
             [] sv = "fail" -> st.indexDoc
             [] sv = "torn" -> CorruptDoc ]

\* saveIndex: the error of writeJsonSync is logged and swallowed
saveIndex(st, sv) ==
  [ st EXCEPT !.indexDoc =
      CASE sv = "ok"   -> JsonDoc(st.index)
        [] sv = "fail" -> st.indexDoc
        [] sv = "torn" -> CorruptDoc ]

\* a delete(id) that lets the error of unlinkSync escape
deleteOrThrow(st, id, ul, sv) ==
  IF id \in IndexIds(st.index)
    THEN LET entry == IndexGet(st.index, id)
         IN IF entry.filePath \in DOMAIN st.files /\ ul # "ok"
              THEN st
              ELSE saveIndex([ st EXCEPT !.files = RemoveFile(st.files, entry.filePath),
                                       !.index = IndexDelete(st.index, id) ], sv)
    ELSE st

\* delete(id)
delete(st, id, ul, sv) ==
  IF id \in IndexIds(st.index)
    THEN LET entry == IndexGet(st.index, id)
             unlinked ==
               IF entry.filePath \in DOMAIN st.files /\ ul = "ok"
                 THEN RemoveFile(st.files, entry.filePath)
                 ELSE st.files
         IN saveIndex([ st EXCEPT !.files = unlinked,
                                  !.index = IndexDelete(st.index, id) ], sv)
    ELSE st

\* expiry one millisecond early
IsExpiredAtTTL(entry, t) == t - entry.createdAt >= entry.ttl

IsExpired(entry, t) == t - entry.createdAt > entry.ttl

\* has(id) without the existsSync check, and has(id) that reports a missing
\* file without deleting the entry
hasNoFileCheck(st, id, t, ul, sv) ==
  IF id \notin IndexIds(st.index)
    THEN [ st |-> st, ret |-> FALSE ]
    ELSE IF IsExpired(IndexGet(st.index, id), t)
      THEN [ st |-> delete(st, id, ul, sv), ret |-> FALSE ]
      ELSE [ st |-> st, ret |-> TRUE ]

hasKeepStale(st, id, t, ul, sv) ==
  IF id \notin IndexIds(st.index)
    THEN [ st |-> st, ret |-> FALSE ]
    ELSE LET entry == IndexGet(st.index, id)
         IN IF IsExpired(entry, t)
              THEN [ st |-> delete(st, id, ul, sv), ret |-> FALSE ]
              ELSE [ st |-> st, ret |-> entry.filePath \in DOMAIN st.files ]

\* has(id): the store afterwards and the returned boolean
has(st, id, t, ul, sv) ==
  IF id \notin IndexIds(st.index)
    THEN [ st |-> st, ret |-> FALSE ]
    ELSE LET entry == IndexGet(st.index, id)
         IN IF IsExpired(entry, t)
              THEN [ st |-> delete(st, id, ul, sv), ret |-> FALSE ]
              ELSE IF entry.filePath \notin DOMAIN st.files
                THEN [ st |-> saveIndex([ st EXCEPT !.index = IndexDelete(st.index, id) ], sv),
                       ret |-> FALSE ]
                ELSE [ st |-> st, ret |-> TRUE ]

NullUrl ==
  [ scheme |-> "null", mime |-> "", format |-> <<>>, enc |-> "",
    payload |-> <<>>, path |-> <<>> ]

\* get(id) and getFileUrl(id): the store afterwards and the url or null
getFileUrl(st, id, t, ul, sv) ==
  LET h == has(st, id, t, ul, sv)
  IN [ st  |-> h.st,
       ret |-> IF h.ret THEN FileUrl(IndexGet(h.st.index, id).filePath) ELSE NullUrl ]

\* setFromDataUrl(id, dataUrl, ttl): ttl is <<>> when the argument is left out
setFromDataUrl(st, id, dataUrl, ttl, t, wf, sv) ==
  IF ~ MatchesDataUrl(dataUrl)
    THEN [ st |-> st, thrown |-> "Invalid data URL format" ]
    ELSE LET filePath == FilePathOf(id, dataUrl.format)
             buffer   == Base64Decode(dataUrl.payload)
         IN IF wf = "fail"
              THEN [ st |-> st, thrown |-> "writeFileSync" ]
              ELSE IF wf = "torn"
              THEN [ st |-> [ st EXCEPT !.files = PutFile(st.files, filePath, <<>>) ],
                     thrown |-> "writeFileSync" ]
              ELSE LET entry == [ id        |-> id,
                                  filePath  |-> filePath,
                                  createdAt |-> t,
                                  ttl       |-> IF ttl = <<>> \/ ttl[1] = 0
                                                  THEN defaultTTL ELSE ttl[1] ]
                   IN [ st |-> saveIndex([ st EXCEPT
                                             !.files = PutFile(st.files, filePath, buffer),
                                             !.index = IndexSet(st.index, entry) ], sv),
                        thrown |-> "" ]

RECURSIVE deleteEach(_, _, _, _)
deleteEach(st, ids, ulF, svF) ==
  IF ids = <<>> THEN st
  ELSE deleteEach(delete(st, Head(ids), ulF[Head(ids)], svF[Head(ids)]),
                  Tail(ids), ulF, svF)

\* a cleanup() that stops after the first entry it deleted
cleanupFirst(st, t, ulF, svF) ==
  LET expired == SelectSeq(st.index, LAMBDA e : IsExpired(e, t))
  IN IF expired = <<>> THEN st
     ELSE delete(st, expired[1].id, ulF[expired[1].id], svF[expired[1].id])

\* cleanup(): delete(id) for every expired entry, in the order of the Map
cleanup(st, t, ulF, svF) ==
  LET expired == SelectSeq(st.index, LAMBDA e : IsExpired(e, t))
  IN deleteEach(st, [ i \in DOMAIN expired |-> expired[i].id ], ulF, svF)

\* a clear() that deletes the expired entries only
clearExpired(st, ulF, svF) ==
  LET expired == SelectSeq(st.index, LAMBDA e : e.ttl # defaultTTL)
  IN deleteEach(st, [ i \in DOMAIN expired |-> expired[i].id ], ulF, svF)

\* clear(): delete(id) for every entry
clear(st, ulF, svF) ==
  deleteEach(st, [ i \in DOMAIN st.index |-> st.index[i].id ], ulF, svF)

\* the loop of getStats: the sizes of the files of the entries, an entry
\* being skipped when its file is missing or statSync throws
RECURSIVE totalSize(_, _, _)
totalSize(entries, fs, stF) ==
  IF entries = <<>> THEN 0
  ELSE LET entry == Head(entries)
       IN ( IF entry.filePath \in DOMAIN fs /\ stF[entry.id] = "ok"
              THEN Len(fs[entry.filePath])
              ELSE 0 )
          + totalSize(Tail(entries), fs, stF)

\* getStats()
getStats(st, stF) ==
  [ size           |-> Len(st.index),
    totalSizeBytes |-> totalSize(st.index, st.files, stF) ]

(***************************************************************************)
(* OpenAIImagesAPI.findVideo (src/unnamed/part_004)                        *)
(***************************************************************************)
imageStyle == "creepy-cartoon-tiktok"

NoVideo == [ id |-> <<>>, url |-> NullUrl, width |-> 0, height |-> 0 ]

\* the base64 strings the images endpoint answers with
B64Payloads == { <<"Q","Q">>, <<"Q","g">>, <<"Q","Q","\n">> }

\* the answers of the images endpoint to the calls of the wrapper: status 0
\* is a rejected fetch (network error, abort, timeout); b64 = <<>> is a body
\* without image data
Responses ==
  { [ status |-> 200, b64 |-> b ] : b \in B64Payloads }
    \cup { [ status |-> n, b64 |-> <<>> ] : n \in { 0, 500 } }

\* `openai-${imageStyle}-${searchTerms.join("-").replace(...).toLowerCase()}-${Date.now()}`
OpenAIId(searchTerms, t) ==
  <<"openai-", imageStyle, "-">>
    \o toLowerCase(StripNonKeyChars(join(searchTerms, <<"-">>)))
    \o <<"-", ToString(t)>>

\* a findVideo that answers a response that is not OK with a Video without
\* image
OpenAIResultLenient(resp, searchTerms, orientation, t) ==
  CASE resp.status = 0   -> [ error |-> "fetch failed", video |-> NoVideo ]
    [] resp.status = 401 -> [ error |-> "Invalid OpenAI API key", video |-> NoVideo ]
    [] resp.status # 200 ->
         [ error |-> "",
           video |-> [ id     |-> OpenAIId(searchTerms, t),
                       url    |-> DataUrl("image", png, "base64", <<>>),
                       width  |-> getOrientationConfig(orientation).width,
                       height |-> getOrientationConfig(orientation).height ] ]
    [] resp.b64 = <<>>   -> [ error |-> "No image data returned from OpenAI",
                              video |-> NoVideo ]
    [] OTHER ->
         [ error |-> "",
           video |-> [ id     |-> OpenAIId(searchTerms, t),
                       url    |-> DataUrl("image", png, "base64", resp.b64),
                       width  |-> getOrientationConfig(orientation).width,
                       height |-> getOrientationConfig(orientation).height ] ]

\* findVideo once the request is answered: the error thrown ("" when none)
\* and the Video returned
OpenAIResult(resp, searchTerms, orientation, t) ==
  CASE resp.status = 0   -> [ error |-> "fetch failed", video |-> NoVideo ]
    [] resp.status = 401 -> [ error |-> "Invalid OpenAI API key", video |-> NoVideo ]
    [] resp.status # 200 -> [ error |-> "OpenAI API error", video |-> NoVideo ]
    [] resp.b64 = <<>>   -> [ error |-> "No image data returned from OpenAI",
                              video |-> NoVideo ]
    [] OTHER ->
         [ error |-> "",
           video |-> [ id     |-> OpenAIId(searchTerms, t),
                       url    |-> DataUrl("image", png, "base64", resp.b64),
                       width  |-> getOrientationConfig(orientation).width,
                       height |-> getOrientationConfig(orientation).height ] ]

\* findVideo as a whole; requested is FALSE when API_KEY is empty
OpenAIFindVideo(requested, resp, searchTerms, orientation, t) ==
  IF requested
    THEN OpenAIResult(resp, searchTerms, orientation, t)
    ELSE [ error |-> "OpenAI API key not set", video |-> NoVideo ]

(***************************************************************************)
(* CachedOpenAIImagesAPI.findVideo                                         *)
(***************************************************************************)
\* up to the await: the store afterwards, whether the cache answered, and
\* the Video returned when it did
\* a hit that ignores the orientation
findVideoHeadPortrait(st, key, orientation, t, ul, sv) ==
  LET cachedUrl == getFileUrl(st, key, t, ul, sv)
  IN [ st    |-> cachedUrl.st,
       hit   |-> cachedUrl.ret # NullUrl,
       video |-> IF cachedUrl.ret # NullUrl
                   THEN [ id |-> key, url |-> cachedUrl.ret,
                          width |-> 1080, height |-> 1920 ]
                   ELSE NoVideo ]

findVideoHead(st, key, orientation, t, ul, sv) ==
  LET cachedUrl == getFileUrl(st, key, t, ul, sv)
  IN [ st    |-> cachedUrl.st,
       hit   |-> cachedUrl.ret # NullUrl,
       video |-> IF cachedUrl.ret # NullUrl
                   THEN [ id     |-> key,
                          url    |-> cachedUrl.ret,
                          width  |-> IF orientation = portrait THEN 1080 ELSE 1920,
                          height |-> IF orientation = portrait THEN 1920 ELSE 1080 ]
                   ELSE NoVideo ]

\* the try block and the return after it, result being what api.findVideo
\* returned: the store afterwards, the error thrown to the caller, the Video
\* returned and the error of the cache that was caught
\* (cacheResultRaise: the same without the catch)
cacheResultRaise(st, key, result, t, wf, sv) ==
  LET w == setFromDataUrl(st, key, result.url, <<>>, t, wf, sv)
  IN IF w.thrown # ""
       THEN [ st |-> w.st, error |-> w.thrown, video |-> NoVideo, thrown |-> w.thrown ]
       ELSE LET fileUrl == getFileUrl(w.st, key, t, "ok", "ok")
            IN [ st     |-> fileUrl.st,
                 error  |-> "",
                 video  |-> IF fileUrl.ret # NullUrl
                              THEN [ result EXCEPT !.id = key, !.url = fileUrl.ret ]
                              ELSE result,
                 thrown |-> "" ]

cacheResult(st, key, result, t, wf, sv) ==
  LET w == setFromDataUrl(st, key, result.url, <<>>, t, wf, sv)
  IN IF w.thrown # ""
       THEN [ st |-> w.st, error |-> "", video |-> result, thrown |-> w.thrown ]
       ELSE LET fileUrl == getFileUrl(w.st, key, t, "ok", "ok")
            IN [ st     |-> fileUrl.st,
                 error  |-> "",
                 video  |-> IF fileUrl.ret # NullUrl
                              THEN [ result EXCEPT !.id = key, !.url = fileUrl.ret ]
                              ELSE result,
                 thrown |-> "" ]

\* from the await on, api.findVideo having thrown gen.error or returned
\* gen.video: the store afterwards, the error thrown to the caller, the Video
\* returned, the error of the cache that was caught, and the number of
\* further calls of api.findVideo (findVideoTailRetry: a second call of
\* api.findVideo after a failure; findVideoTailEager: the index entry written
\* before the result is looked at)
findVideoTailRetry(st, key, gen, t, wf, sv) ==
  LET done == cacheResult(st, key, gen.video, t, wf, sv)
  IN IF gen.error # ""
       THEN [ st |-> st, error |-> gen.error, video |-> NoVideo, thrown |-> "",
              again |-> 1 ]
       ELSE [ st |-> done.st, error |-> done.error, video |-> done.video,
              thrown |-> done.thrown, again |-> 0 ]

findVideoTailEager(st, key, gen, t, wf, sv) ==
  LET done == cacheResult(st, key, gen.video, t, wf, sv)
      entry == [ id |-> key, filePath |-> FilePathOf(key, png), createdAt |-> t,
                 ttl |-> defaultTTL ]
  IN IF gen.error # ""
       THEN [ st |-> [ st EXCEPT !.index = IndexSet(st.index, entry) ],
              error |-> gen.error, video |-> NoVideo, thrown |-> "", again |-> 0 ]
       ELSE [ st |-> done.st, error |-> done.error, video |-> done.video,
              thrown |-> done.thrown, again |-> 0 ]

findVideoTail(st, key, gen, t, wf, sv) ==
  LET done == cacheResult(st, key, gen.video, t, wf, sv)
  IN IF gen.error # ""
       THEN [ st |-> st, error |-> gen.error, video |-> NoVideo, thrown |-> "",
              again |-> 0 ]
       ELSE [ st |-> done.st, error |-> done.error, video |-> done.video,
              thrown |-> done.thrown, again |-> 0 ]

(***************************************************************************)
(* State                                                                   *)
(***************************************************************************)
VARIABLES
  now,       \* Date.now()
  API_KEY,   \* OpenAIImagesAPI.API_KEY
  index,     \* FileCache.index
  indexDoc,  \* the file index.json
  files,     \* the blob files of the cache directory
  faults,    \* the number of filesystem calls that failed so far
  reqs,      \* the requests the callers issue
  calls,     \* the findVideo calls of the wrapper in flight, by slot
  last,      \* what the last step did and returned (NoEvent when it was a
             \* step of the environment)
  prev,      \* per request, the last findVideo call that returned a Video
  history,   \* whether prev is kept in this behaviour
  asked      \* per key, the ttl the write of its entry was called for

vars ==
  << now, API_KEY, index, indexDoc, files, faults, reqs, calls, last, prev,
     history, asked >>

Calls == 1 .. MaxCalls

\* the requests issued
Requests ==
  { [ searchTerms |-> << <<"C","a","t","!">> >>, orientation |-> portrait ],
    [ searchTerms |-> << <<"C","a","t","!">> >>, orientation |-> landscape ] }

KeyTable == [ r \in Requests |-> cacheKey(r.searchTerms, r.orientation) ]

KeyOf(r) == KeyTable[r]

Keys == { KeyOf(r) : r \in Requests }

Store == [ index |-> index, indexDoc |-> indexDoc, files |-> files ]

SetStore(st) ==
  /\ index' = st.index
  /\ indexDoc' = st.indexDoc
  /\ files' = st.files

\* the bytes a url gives its consumer: the file, or the decoded payload
Resolve(fs, url) ==
  CASE url.scheme = "file" ->
         IF url.path \in DOMAIN fs THEN << fs[url.path] >> ELSE <<>>
    [] url.scheme = "data" -> << Base64Decode(url.payload) >>
    [] OTHER -> <<>>

\* the entry of a key as the specification classifies it
EntryState(idx, fs, id, t) ==
  IF id \notin IndexIds(idx) THEN "absent"
  ELSE LET e == IndexGet(idx, id)
       IN IF t > e.createdAt + e.ttl THEN "expired"
          ELSE IF e.filePath \notin DOMAIN fs THEN "stale"
          ELSE "live"

AnyRequest == CHOOSE r \in Requests : TRUE

\* a call in flight: its request and whether the HTTP request was issued
IdleCall == [ pc |-> "idle", req |-> AnyRequest, requested |-> FALSE ]

NoEvent ==
  [ op        |-> "",       \* "findVideo", "restart" or the method of
                            \* FileCache that was called
    id        |-> <<>>,     \* the key the operation was about
    t         |-> 0,        \* when the operation started, the time,
    entry     |-> <<>>,     \* the entry of the key (of cleanup and clear:
                            \* the entries of the index)
    hadFile   |-> FALSE,    \* and whether the file of that entry was there
    ret       |-> FALSE,    \* what has(id) returned
    ul        |-> "ok",     \* the outcomes of unlinkSync, of writeFileSync
    wf        |-> "ok",     \* and of writeJsonSync in the operation
    sv        |-> "ok",
    req       |-> AnyRequest,
    outcome   |-> "",       \* "hit", "miss" (the call awaits api.findVideo),
                            \* "cached", "uncached" or "error"
    invoked   |-> 0,        \* calls of api.findVideo made by the call so far
    requested |-> FALSE,    \* the HTTP request was issued
    result    |-> NoVideo,  \* the Video returned
    error     |-> "",       \* the error thrown to the caller
    genError  |-> "",       \* the error api.findVideo threw
    generated |-> NoVideo,  \* the Video api.findVideo returned
    thrown    |-> "",       \* the error setFromDataUrl threw
    bytes     |-> <<>>,     \* what result.url resolved to on return
    atStart   |-> "",       \* EntryState of the key when the call starts
    asked     |-> <<>>,     \* the ttl the write of the entry was called for
    follows   |-> <<>>,     \* the earlier call this one repeats
    dataUrl   |-> NullUrl,  \* the arguments dataUrl and ttl of setFromDataUrl
    ttl       |-> <<>>,
    stats     |-> [ size |-> 0, totalSizeBytes |-> 0 ],  \* what getStats returned
    req2      |-> AnyRequest,  \* of a pair of key derivations: the second
    id2       |-> <<>>,        \* request and its key
    resp      |-> [ status |-> 0, b64 |-> <<>> ] ]  \* the answer of the endpoint

NoPrev ==
  [ set |-> FALSE, id |-> <<>>, path |-> <<>>, bytes |-> <<>>, invoked |-> 0,
    createdAt |-> 0, ttl |-> 0, events |-> {} ]

Init ==
  /\ now = 0
  /\ API_KEY \in { "", "sk-test" }
  /\ index = <<>>
  /\ indexDoc = NoDoc
  /\ files = [ p \in {} |-> <<>> ]
  /\ faults = 0
  /\ reqs \in { { r } : r \in Requests }
  /\ calls = [ c \in Calls |-> IdleCall ]
  /\ last = NoEvent
  /\ prev = [ r \in Requests |-> NoPrev ]
  /\ history = TRUE
  /\ asked = [ k \in Keys |-> <<>> ]

(***************************************************************************)
(* History kept for the properties                                         *)
(***************************************************************************)
\* what is remembered of a call that returned the Video v: its id, the bytes
\* its url resolved to, the file the url names, the entry's createdAt and ttl
\* (the time of return and the default when nothing was stored), and what
\* happened since: "restart", "unsaved" (the restart lost the entry).  It is
\* forgotten when cleanup or clear runs, when the key is written again and
\* when the file is removed out of band.
NewPrev(v, bytes, invoked, idx, id, t) ==
  [ set       |-> TRUE,
    id        |-> v.id,
    path      |-> IF v.url.scheme = "file" THEN << v.url.path >> ELSE <<>>,
    bytes     |-> bytes,
    invoked   |-> invoked,
    createdAt |-> IF v.url.scheme = "file" THEN IndexGet(idx, id).createdAt ELSE t,
    ttl       |-> IF v.url.scheme = "file" THEN IndexGet(idx, id).ttl ELSE defaultTTL,
    events    |-> {} ]

\* the entries the index document holds
DocEntries == IF indexDoc.kind = "json" THEN indexDoc.data ELSE <<>>

\* prev becomes p where the history is kept
Remember(p) ==
  /\ prev' = IF history THEN p ELSE prev
  /\ history' = history

\* asked after a step that leaves the index idx and in which written, <<>>
\* or << id, ttl >>, tells the write that succeeded: the ttl of a write is
\* the argument, defaultTTL when it is left out
Ask(idx, written) ==
  asked' = [ k \in Keys |->
    IF k \notin IndexIds(idx) THEN <<>>
    ELSE IF written # <<>> /\ written[1] = k THEN << written[2] >>
    ELSE asked[k] ]

Note(p, ev) == IF p.set THEN [ p EXCEPT !.events = @ \cup {ev} ] ELSE p

\* the earlier call with the same inputs that a call starting now comes
\* after: it returned a Video, no cleanup or clear ran since, the key was not
\* written and its file not removed since, and the TTL has not passed
Follows(r) ==
  IF prev[r].set /\ now - prev[r].createdAt <= prev[r].ttl
    THEN << [ id |-> prev[r].id, bytes |-> prev[r].bytes,
              invoked |-> prev[r].invoked, cached |-> prev[r].path # <<>>,
              events |-> prev[r].events ] >>
    ELSE <<>>

(***************************************************************************)
(* Filesystem failures: an outcome other than "ok" is a failure only when  *)
(* the call it belongs to is made and changes what the operation does      *)
(***************************************************************************)
Failed(outcomes) == Cardinality({ i \in DOMAIN outcomes : outcomes[i] # "ok" })

\* the failures in outcomes fit the budget, and there are none when the
\* operation does the same without them
Inject(outcomes, withFaults, withoutFaults) ==
  /\ faults + Failed(outcomes) <= MaxFaults
  /\ Failed(outcomes) = 0 \/ withFaults # withoutFaults
  /\ faults' = faults + Failed(outcomes)

(***************************************************************************)
(* Actions                                                                 *)
(***************************************************************************)
\* the record of an operation on the key id that starts in this state
Before(op, id) ==
  [ NoEvent EXCEPT !.op = op,
                   !.id = id,
                   !.t = now,
                   !.entry = EntryOf(index, id),
                   !.asked = IF id \in Keys THEN asked[id] ELSE <<>>,
                   !.hadFile = /\ id \in IndexIds(index)
                               /\ IndexGet(index, id).filePath \in DOMAIN files ]

\* the lowest slot that holds no call in flight
FreeSlot(c) ==
  /\ calls[c].pc = "idle"
  /\ \A d \in Calls : d < c => calls[d].pc # "idle"

\* a caller invokes findVideo(r.searchTerms, _, _, r.orientation); the call
\* runs up to the await of api.findVideo, or returns from the cache
FetchStart(c, r, ul, sv) ==
  /\ FreeSlot(c)
  /\ r \in reqs
  /\ LET key   == KeyOf(r)
         head  == findVideoHead(Store, key, r.orientation, now, ul, sv)
         bytes == Resolve(head.st.files, head.video.url)
         begun == [ Before("findVideo", key) EXCEPT
                      !.req = r,
                      !.ret = head.hit,
                      !.ul = ul,
                      !.sv = sv,
                      !.atStart = EntryState(index, files, key, now),
                      !.follows = Follows(r) ]
     IN /\ Inject(<<ul, sv>>, head,
                  findVideoHead(Store, key, r.orientation, now, "ok", "ok"))
        /\ SetStore(head.st)
        /\ Ask(head.st.index, <<>>)
        /\ IF head.hit
             THEN /\ calls' = calls
                  /\ last' = [ begun EXCEPT !.outcome = "hit",
                                            !.result = head.video,
                                            !.bytes = bytes ]
                  /\ Remember([ prev EXCEPT ![r] =
                                 NewPrev(head.video, bytes, 0, head.st.index, key, now) ])
             ELSE /\ calls' = [ calls EXCEPT ![c] =
                                  [ pc |-> "generating", req |-> r,
                                    requested |-> (API_KEY # "") ] ]
                  /\ last' = [ begun EXCEPT !.outcome = "miss",
                                            !.invoked = 1,
                                            !.requested = (API_KEY # "") ]
                  /\ Remember(prev)
  /\ UNCHANGED << now, API_KEY, reqs >>

\* api.findVideo settles and the call runs to its end
FetchComplete(c, resp, wf, sv) ==
  /\ calls[c].pc = "generating"
  /\ calls[c].requested \/ resp.status = 0
  /\ LET r     == calls[c].req
         key   == KeyOf(r)
         gen   == OpenAIFindVideo(calls[c].requested, resp,
                                  r.searchTerms, r.orientation, now)
         tail  == findVideoTail(Store, key, gen, now, wf, sv)
         bytes == Resolve(tail.st.files, tail.video.url)
     IN /\ Inject(<<wf, sv>>, tail, findVideoTail(Store, key, gen, now, "ok", "ok"))
        /\ SetStore(tail.st)
        /\ Ask(tail.st.index,
               IF gen.error = "" /\ tail.thrown = "" THEN << key, defaultTTL >> ELSE <<>>)
        /\ last' = [ NoEvent EXCEPT
             !.op = "findVideo",
             !.id = key,
             !.req = r,
             !.entry = EntryOf(index, key),
             !.hadFile = /\ key \in IndexIds(index)
                         /\ IndexGet(index, key).filePath \in DOMAIN files,
             !.wf = wf,
             !.sv = sv,
             !.outcome = IF tail.error # "" THEN "error"
                         ELSE IF tail.video.url.scheme = "file" THEN "cached"
                         ELSE "uncached",
             !.invoked = 1 + tail.again,
             !.requested = calls[c].requested,
             !.result = tail.video,
             !.error = tail.error,
             !.genError = gen.error,
             !.generated = gen.video,
             !.thrown = tail.thrown,
             !.bytes = bytes,
             !.resp = IF calls[c].requested THEN resp ELSE NoEvent.resp ]
        /\ Remember([ q \in Requests |->
             IF q = r /\ tail.error = ""
               THEN NewPrev(tail.video, bytes, 1 + tail.again, tail.st.index, key, now)
               ELSE IF KeyOf(q) = key /\ tail.st.files # files
                 THEN NoPrev
                 ELSE prev[q] ])
  /\ calls' = [ calls EXCEPT ![c] = IdleCall ]
  /\ UNCHANGED << now, API_KEY, reqs >>

Faults(outcomes) == [ IndexIds(index) -> outcomes ]

AllOk == [ id \in IndexIds(index) |-> "ok" ]

FailedIn(ulF, svF) ==
  Cardinality({ id \in DOMAIN ulF : ulF[id] # "ok" }) +
  Cardinality({ id \in DOMAIN svF : svF[id] # "ok" })

InjectEach(ulF, svF, withFaults, withoutFaults) ==
  /\ faults + FailedIn(ulF, svF) <= MaxFaults
  /\ FailedIn(ulF, svF) = 0 \/ withFaults # withoutFaults
  /\ faults' = faults + FailedIn(ulF, svF)

\* CachedOpenAIImagesAPI.cleanup()
Cleanup(ulF, svF) ==
  /\ InjectEach(ulF, svF, cleanup(Store, now, ulF, svF),
                cleanup(Store, now, AllOk, AllOk))
  /\ SetStore(cleanup(Store, now, ulF, svF))
  /\ Ask(cleanup(Store, now, ulF, svF).index, <<>>)
  /\ Remember([ q \in Requests |-> NoPrev ])
  /\ last' = NoEvent
  /\ UNCHANGED << now, API_KEY, reqs, calls >>

\* CachedOpenAIImagesAPI.clear()
Clear(ulF, svF) ==
  /\ InjectEach(ulF, svF, clear(Store, ulF, svF), clear(Store, AllOk, AllOk))
  /\ SetStore(clear(Store, ulF, svF))
  /\ Ask(clear(Store, ulF, svF).index, <<>>)
  /\ Remember([ q \in Requests |-> NoPrev ])
  /\ last' = NoEvent
  /\ UNCHANGED << now, API_KEY, reqs, calls >>

\* the clock advances by a millisecond or by a whole TTL period
Tick ==
  /\ \/ /\ now % defaultTTL < MaxSmallTicks
        /\ now' = now + 1
     \/ /\ now \div defaultTTL < MaxBigTicks
        /\ now' = now + defaultTTL
  /\ last' = NoEvent
  /\ UNCHANGED << API_KEY, index, indexDoc, files, faults, reqs, calls, prev,
                  history, asked >>

\* a blob file is removed by something else than the cache
RemoveOutOfBand(p) ==
  /\ p \in DOMAIN files
  /\ files' = RemoveFile(files, p)
  /\ Remember([ q \in Requests |->
       IF prev[q].path = << p >> THEN NoPrev ELSE prev[q] ])
  /\ last' = NoEvent
  /\ UNCHANGED << now, API_KEY, index, indexDoc, faults, reqs, calls, asked >>

\* the process ends and a new CachedOpenAIImagesAPI is constructed over the
\* same directory: new FileCache(dir) runs loadIndex; the calls in flight
\* end with the process
Restart ==
  /\ index' = loadIndex(indexDoc)
  /\ Ask(loadIndex(indexDoc), <<>>)
  /\ calls' = [ c \in Calls |-> IdleCall ]
  /\ Remember([ q \in Requests |->
       IF EntryOf(DocEntries, KeyOf(q)) = EntryOf(index, KeyOf(q))
         THEN Note(prev[q], "restart")
         ELSE Note(Note(prev[q], "restart"), "unsaved") ])
  /\ last' = [ NoEvent EXCEPT !.op = "restart" ]
  /\ UNCHANGED << now, API_KEY, indexDoc, files, faults, reqs >>

(***************************************************************************)
(* FileCache called directly                                               *)
(***************************************************************************)
\* the keys, contents and ttl arguments the callers of FileCache use; the ttl
\* is <<>> when the argument is left out
CacheIds == { KeyOf(r) : r \in reqs }

DataUrls ==
  { DataUrl("image", png, "base64", <<"Q","Q">>) }

Ttls == { <<>>, <<0>>, <<1>> }

\* FileCache.has(id)
CacheHas(id, ul, sv) ==
  /\ id \in CacheIds
  /\ LET h == has(Store, id, now, ul, sv)
     IN /\ Inject(<<ul, sv>>, h, has(Store, id, now, "ok", "ok"))
        /\ SetStore(h.st)
        /\ Ask(h.st.index, <<>>)
        /\ last' = [ Before("has", id) EXCEPT !.ret = h.ret, !.ul = ul, !.sv = sv ]
  /\ UNCHANGED << now, API_KEY, reqs, calls, prev, history >>

\* FileCache.setFromDataUrl(id, dataUrl, ttl)
CacheSet(id, dataUrl, ttl, wf, sv) ==
  /\ id \in CacheIds
  /\ LET w == setFromDataUrl(Store, id, dataUrl, ttl, now, wf, sv)
     IN /\ Inject(<<wf, sv>>, w, setFromDataUrl(Store, id, dataUrl, ttl, now, "ok", "ok"))
        /\ SetStore(w.st)
        /\ Ask(w.st.index,
               IF w.thrown # "" THEN <<>>
               ELSE << id, IF ttl = <<>> THEN defaultTTL ELSE ttl[1] >>)
        /\ last' = [ Before("setFromDataUrl", id) EXCEPT
                       !.thrown = w.thrown, !.wf = wf, !.sv = sv,
                       !.dataUrl = dataUrl, !.ttl = ttl ]
        /\ Remember([ q \in Requests |->
             IF KeyOf(q) = id /\ w.st # Store THEN NoPrev ELSE prev[q] ])
  /\ UNCHANGED << now, API_KEY, reqs, calls >>

Next ==
  \/ \E c \in Calls, r \in Requests, ul \in UnlinkOutcomes, sv \in SaveOutcomes :
       FetchStart(c, r, ul, sv)
  \/ \E c \in Calls, resp \in Responses, wf \in WriteOutcomes, sv \in SaveOutcomes :
       FetchComplete(c, resp, wf, sv)
  \/ \E ulF \in Faults(UnlinkOutcomes), svF \in Faults(SaveOutcomes) :
       Cleanup(ulF, svF)
  \/ \E ulF \in Faults(UnlinkOutcomes), svF \in Faults(SaveOutcomes) :
       Clear(ulF, svF)
  \/ Tick
  \/ \E p \in DOMAIN files : RemoveOutOfBand(p)
  \/ Restart

Spec == Init /\ [][Next]_vars

\* the wrapper and direct callers of its FileCache
NextCache ==
  \/ \E id \in { KeyOf(r) : r \in Requests },
        ul \in UnlinkOutcomes, sv \in SaveOutcomes :
       CacheHas(id, ul, sv)
  \/ \E id \in { KeyOf(r) : r \in Requests }, dataUrl \in DataUrls, ttl \in Ttls,
        wf \in WriteOutcomes, sv \in SaveOutcomes :
       CacheSet(id, dataUrl, ttl, wf, sv)
  \/ \E c \in Calls, r \in Requests, ul \in UnlinkOutcomes, sv \in SaveOutcomes :
       FetchStart(c, r, ul, sv)
  \/ \E c \in Calls, resp \in Responses, wf \in WriteOutcomes, sv \in SaveOutcomes :
       FetchComplete(c, resp, wf, sv)
  \/ Tick
  \/ \E p \in DOMAIN files : RemoveOutOfBand(p)

\* as Init with a key configured, keeping no history of the calls of the
\* wrapper
InitCache ==
  /\ now = 0
  /\ API_KEY = "sk-test"
  /\ index = <<>>
  /\ indexDoc = NoDoc
  /\ files = [ p \in {} |-> <<>> ]
  /\ faults = 0
  /\ reqs \in { { r } : r \in Requests }
  /\ calls = [ c \in Calls |-> IdleCall ]
  /\ last = NoEvent
  /\ prev = [ r \in Requests |-> NoPrev ]
  /\ history = FALSE
  /\ asked = [ k \in Keys |-> <<>> ]

SpecCache == InitCache /\ [][NextCache]_vars

\* the contents written: images of two subtypes, a text that is not base64,
\* and strings that are not image data urls
WriteDataUrls ==
  { DataUrl("image", png, "base64", <<"Q","Q">>),
    DataUrl("image", png, "base64", <<"Q","g">>),
    DataUrl("image", jpeg, "base64", <<"Q","g">>),
    DataUrl("image", png, "base64", <<"!","!">>),
    DataUrl("image", png, "base64", <<"Q","Q","\n">>),
    DataUrl("image", png, "base64", <<>>),
    DataUrl("image", <<"s","v","g","+","x","m","l">>, "base64", <<"Q","Q">>),
    DataUrl("image", png, "utf8", <<"Q","Q">>),
    DataUrl("text", png, "base64", <<"Q","Q">>),
    FileUrl(FilePathOf(<<"x">>, png)) }

\* one key written and looked up by direct callers of FileCache
NextWrite ==
  \/ \E id \in { KeyOf(r) : r \in Requests }, dataUrl \in WriteDataUrls,
        wf \in WriteOutcomes, sv \in SaveOutcomes :
       CacheSet(id, dataUrl, <<>>, wf, sv)
  \/ \E id \in { KeyOf(r) : r \in Requests },
        ul \in UnlinkOutcomes, sv \in SaveOutcomes :
       CacheHas(id, ul, sv)
  \/ Tick
  \/ \E p \in DOMAIN files : RemoveOutOfBand(p)

SpecWrite == InitCache /\ [][NextWrite]_vars

\* FileCache.delete(id)
CacheDelete(id, ul, sv) ==
  /\ id \in CacheIds
  /\ LET d == delete(Store, id, ul, sv)
     IN /\ Inject(<<ul, sv>>, d, delete(Store, id, "ok", "ok"))
        /\ SetStore(d)
        /\ Ask(d.index, <<>>)
        /\ last' = [ Before("delete", id) EXCEPT !.ul = ul, !.sv = sv ]
  /\ UNCHANGED << now, API_KEY, reqs, calls, prev, history >>

\* FileCache.cleanup()
CacheCleanup(ulF, svF) ==
  /\ LET done == cleanup(Store, now, ulF, svF)
     IN /\ InjectEach(ulF, svF, done, cleanup(Store, now, AllOk, AllOk))
        /\ SetStore(done)
        /\ Ask(done.index, <<>>)
        /\ last' = [ NoEvent EXCEPT !.op = "cleanup", !.t = now, !.entry = index ]
  /\ UNCHANGED << now, API_KEY, reqs, calls, prev, history >>

\* FileCache.clear()
CacheClear(ulF, svF) ==
  /\ LET done == clear(Store, ulF, svF)
     IN /\ InjectEach(ulF, svF, done, clear(Store, AllOk, AllOk))
        /\ SetStore(done)
        /\ Ask(done.index, <<>>)
        /\ last' = [ NoEvent EXCEPT !.op = "clear", !.t = now, !.entry = index ]
  /\ UNCHANGED << now, API_KEY, reqs, calls, prev, history >>

\* FileCache.getStats()
CacheStats(stF) ==
  /\ faults + Cardinality({ id \in DOMAIN stF : stF[id] # "ok" }) <= MaxFaults
  /\ \/ \A id \in DOMAIN stF : stF[id] = "ok"
     \/ getStats(Store, stF) # getStats(Store, AllOk)
  /\ faults' = faults + Cardinality({ id \in DOMAIN stF : stF[id] # "ok" })
  /\ last' = [ NoEvent EXCEPT !.op = "getStats", !.t = now,
                             !.stats = getStats(Store, stF) ]
  /\ UNCHANGED << now, API_KEY, index, indexDoc, files, reqs, calls, prev,
                  history, asked >>

\* the ttl arguments of the writes to a cache of two keys
StoreTtls == { <<>>, <<1>> }

\* two keys written, deleted and counted by direct callers of FileCache
NextStore ==
  \/ \E id \in Keys, dataUrl \in DataUrls, ttl \in StoreTtls,
        wf \in WriteOutcomes, sv \in SaveOutcomes :
       CacheSet(id, dataUrl, ttl, wf, sv)
  \/ \E id \in Keys, ul \in UnlinkOutcomes, sv \in SaveOutcomes :
       CacheDelete(id, ul, sv)
  \/ \E ulF \in Faults(UnlinkOutcomes), svF \in Faults(SaveOutcomes) :
       CacheCleanup(ulF, svF)
  \/ \E ulF \in Faults(UnlinkOutcomes), svF \in Faults(SaveOutcomes) :
       CacheClear(ulF, svF)
  \/ \E stF \in Faults(StatOutcomes) : CacheStats(stF)
  \/ Tick
  \/ \E p \in DOMAIN files : RemoveOutOfBand(p)

\* as InitCache, the callers using both keys
InitStore ==
  /\ now = 0
  /\ API_KEY = "sk-test"
  /\ index = <<>>
  /\ indexDoc = NoDoc
  /\ files = [ p \in {} |-> <<>> ]
  /\ faults = 0
  /\ reqs = Requests
  /\ calls = [ c \in Calls |-> IdleCall ]
  /\ last = NoEvent
  /\ prev = [ r \in Requests |-> NoPrev ]
  /\ history = FALSE
  /\ asked = [ k \in Keys |-> <<>> ]

SpecStore == InitStore /\ [][NextStore]_vars

\* every mutating operation of one FileCache, and the construction of a new
\* one over the same directory
NextDoc ==
  \/ \E id \in Keys, dataUrl \in DataUrls, ttl \in StoreTtls,
        wf \in WriteOutcomes, sv \in SaveOutcomes :
       CacheSet(id, dataUrl, ttl, wf, sv)
  \/ \E id \in Keys, ul \in UnlinkOutcomes, sv \in SaveOutcomes :
       CacheHas(id, ul, sv)
  \/ \E id \in Keys, ul \in UnlinkOutcomes, sv \in SaveOutcomes :
       CacheDelete(id, ul, sv)
  \/ \E ulF \in Faults(UnlinkOutcomes), svF \in Faults(SaveOutcomes) :
       CacheCleanup(ulF, svF)
  \/ \E ulF \in Faults(UnlinkOutcomes), svF \in Faults(SaveOutcomes) :
       CacheClear(ulF, svF)
  \/ Tick
  \/ Restart

SpecDoc == InitStore /\ [][NextDoc]_vars

\* every answer of the images endpoint that findVideo tells apart: an
\* image, a rejected fetch, 401, another status that is not OK, and a body
\* without image data
ApiResponses ==
  { [ status |-> 200, b64 |-> <<"Q","Q">> ],
    [ status |-> 200, b64 |-> <<>> ],
    [ status |-> 0,   b64 |-> <<>> ],
    [ status |-> 401, b64 |-> <<>> ],
    [ status |-> 500, b64 |-> <<>> ] }

\* the wrapper over an OpenAIImagesAPI with and without key
NextApi ==
  \/ \E c \in Calls, r \in Requests, ul \in UnlinkOutcomes, sv \in SaveOutcomes :
       FetchStart(c, r, ul, sv)
  \/ \E c \in Calls, resp \in ApiResponses, wf \in WriteOutcomes, sv \in SaveOutcomes :
       FetchComplete(c, resp, wf, sv)
  \/ Tick

\* as Init, keeping no history of the calls
InitApi ==
  /\ now = 0
  /\ API_KEY \in { "", "sk-test" }
  /\ index = <<>>
  /\ indexDoc = NoDoc
  /\ files = [ p \in {} |-> <<>> ]
  /\ faults = 0
  /\ reqs \in { { r } : r \in Requests }
  /\ calls = [ c \in Calls |-> IdleCall ]
  /\ last = NoEvent
  /\ prev = [ r \in Requests |-> NoPrev ]
  /\ history = FALSE
  /\ asked = [ k \in Keys |-> <<>> ]

SpecApi == InitApi /\ [][NextApi]_vars

\* the answers of the endpoint to the calls for two keys
TwoResponses ==
  { [ status |-> 200, b64 |-> <<"Q","Q">> ],
    [ status |-> 500, b64 |-> <<>> ] }

\* calls of the wrapper for two keys that overlap, with cleanup() and
\* delete(id) between their steps
NextTwo ==
  \/ \E c \in Calls, r \in Requests, ul \in UnlinkOutcomes, sv \in SaveOutcomes :
       FetchStart(c, r, ul, sv)
  \/ \E c \in Calls, resp \in TwoResponses, wf \in WriteOutcomes, sv \in SaveOutcomes :
       FetchComplete(c, resp, wf, sv)
  \/ \E ulF \in Faults(UnlinkOutcomes), svF \in Faults(SaveOutcomes) :
       CacheCleanup(ulF, svF)
  \/ \E id \in Keys, ul \in UnlinkOutcomes, sv \in SaveOutcomes :
       CacheDelete(id, ul, sv)
  \/ Tick

SpecTwo == InitStore /\ [][NextTwo]_vars

(***************************************************************************)
(* The key derivation of findVideo on its own                              *)
(***************************************************************************)
\* the lists of search terms the keys are derived for
TermLists ==
  { <<>>,
    << <<>> >>,
    << <<"a">> >>,
    << <<"A">> >>,
    << <<"a","!">> >>,
    << <<"a","b">> >>,
    << <<"a">>, <<"b">> >>,
    << <<"b">>, <<"a">> >>,
    << <<"a","-","b">> >>,
    << <<"a">>, <<>> >>,
    << <<"a","1">> >> }

KeyRequests ==
  { [ searchTerms |-> ts, orientation |-> o ] : ts \in TermLists, o \in OrientationEnum }

\* findVideo computes the cache keys of two requests
DeriveKeys(a, b) ==
  /\ a \in reqs
  /\ b \in reqs
  /\ last' = [ NoEvent EXCEPT
                 !.op = "cacheKey",
                 !.req = a,
                 !.id = cacheKey(a.searchTerms, a.orientation),
                 !.req2 = b,
                 !.id2 = cacheKey(b.searchTerms, b.orientation) ]
  /\ UNCHANGED << now, API_KEY, index, indexDoc, files, faults, reqs, calls,
                  prev, history, asked >>

NextKey == \E a \in KeyRequests, b \in KeyRequests : DeriveKeys(a, b)

\* as InitCache, for one or two requests out of KeyRequests
InitKey ==
  /\ now = 0
  /\ API_KEY = "sk-test"
  /\ index = <<>>
  /\ indexDoc = NoDoc
  /\ files = [ p \in {} |-> <<>> ]
  /\ faults = 0
  /\ reqs \in { { a, b } : a \in KeyRequests, b \in KeyRequests }
  /\ calls = [ c \in Calls |-> IdleCall ]
  /\ last = NoEvent
  /\ prev = [ r \in Requests |-> NoPrev ]
  /\ history = FALSE
  /\ asked = [ k \in Keys |-> <<>> ]

SpecKey == InitKey /\ [][NextKey]_vars

(***************************************************************************)
(* Properties                                                              *)
(***************************************************************************)
\* the step just taken started a findVideo call (it returned from the cache
\* or awaits api.findVideo), resp. ended one
Started == last.op = "findVideo" /\ last.outcome \in { "hit", "miss" }

Completed == last.op = "findVideo" /\ last.outcome \in { "cached", "uncached", "error" }

DocIds == IndexIds(DocEntries)

\* the second call is a hit that returns what the first returned, and the two
\* calls invoked api.findVideo at most once
SameAsFirst ==
  /\ last.outcome = "hit"
  /\ last.follows[1].invoked + last.invoked <= 1
  /\ last.result.id = last.follows[1].id
  /\ last.bytes = last.follows[1].bytes

\* C1 as stated: a findVideo call that starts after a call with the same
\* inputs returned a Video, within the TTL, in the same process and with no
\* cleanup or clear in between, is a hit with the same id and the same bytes,
\* and api.findVideo ran at most once over the two calls.
C1_AsStated ==
  (Started /\ last.follows # <<>> /\ last.follows[1].events = {}) => SameAsFirst

\* C1: the same, when the first call returned the file:// url of the stored
\* entry (the cache write did not fail).
C1_RepeatIsHit ==
  (/\ Started
   /\ last.follows # <<>>
   /\ last.follows[1].events = {}
   /\ last.follows[1].cached) => SameAsFirst

\* a second call hits after a first call that generated and cached
C1_Witness ==
  /\ Started
  /\ last.follows # <<>>
  /\ last.follows[1].cached
  /\ last.follows[1].invoked = 1
  /\ last.follows[1].events = {}
  /\ last.outcome = "hit"

\* C2: at no time do two findVideo calls of one process await api.findVideo
\* for the same cache key.
C2_SingleFlight ==
  \A c, d \in Calls :
    (/\ c # d
     /\ calls[c].pc = "generating"
     /\ calls[d].pc = "generating") => KeyOf(calls[c].req) # KeyOf(calls[d].req)

\* C3: a findVideo call that starts when its key is live (entry present, not
\* expired, file present) returns, without calling api.findVideo, the Video
\* with the key as id, the file:// url of the entry's file and 1080x1920 for
\* portrait, 1920x1080 for landscape.
C3_HitAsset ==
  (Started /\ last.atStart = "live") =>
    /\ last.outcome = "hit"
    /\ last.invoked = 0
    /\ last.result.id = KeyOf(last.req)
    /\ last.result.url = FileUrl(last.entry[1].filePath)
    /\ last.result.width = (IF last.req.orientation = portrait THEN 1080 ELSE 1920)
    /\ last.result.height = (IF last.req.orientation = portrait THEN 1920 ELSE 1080)

\* a landscape request answered from the cache
C3_Witness ==
  /\ Started
  /\ last.atStart = "live"
  /\ last.req.orientation = landscape
  /\ last.result.width = 1920

\* C4: for an entry written at time t by a write called for the ttl T,
\* whose file is on disk, has returns true at every time before t + T and
\* false at every time after t + T, and a findVideo call for its key that
\* starts after t + T calls api.findVideo.
C4_TtlWindow ==
  (last.entry # <<>> /\ last.hadFile /\ last.asked # <<>>) =>
    LET expiry == last.entry[1].createdAt + last.asked[1]
    IN /\ (last.op = "has" /\ last.t < expiry) => last.ret
       /\ (last.op = "has" /\ last.t > expiry) => ~ last.ret
       /\ (Started /\ last.t > expiry) => (last.outcome = "miss" /\ last.invoked = 1)

\* has reports an entry written with ttl 0 a millisecond after the write
C4_Witness ==
  /\ last.op = "has"
  /\ last.entry # <<>>
  /\ last.hadFile
  /\ last.asked = << 0 >>
  /\ last.t = last.entry[1].createdAt + 1
  /\ last.ret

\* has(id) returned true exactly when the key had an entry, not expired, with
\* its file on disk
HasIffLive ==
  last.ret <=> (/\ last.entry # <<>>
                /\ last.t <= last.entry[1].createdAt + last.entry[1].ttl
                /\ last.hadFile)

\* C5 as stated: has(id) returns true exactly for a live entry, and when it
\* returns false for a key that had an entry, the key is in neither the index
\* nor the index document afterwards.
C5_AsStated ==
  (last.op = "has") =>
    /\ HasIffLive
    /\ (~ last.ret /\ last.entry # <<>>) =>
         (last.id \notin IndexIds(index) /\ last.id \notin DocIds)

\* C5: has(id) returns true exactly for a live entry, and when it returns
\* false for a key that had an entry, the key is no longer in the index, and
\* no longer in the index document unless writing the document failed.
C5_HasPurges ==
  (last.op = "has") =>
    /\ HasIffLive
    /\ (~ last.ret /\ last.entry # <<>>) =>
         /\ last.id \notin IndexIds(index)
         /\ (last.sv = "ok") => last.id \notin DocIds

\* has(id) purged an entry whose file was gone
C5_Witness ==
  /\ last.op = "has"
  /\ last.entry # <<>>
  /\ ~ last.hadFile
  /\ ~ last.ret
  /\ last.sv = "ok"
  /\ last.id \notin DocIds

\* C6: a findVideo call that starts when its key has a non-expired entry
\* whose file is gone throws nothing for that, drops the entry and calls
\* api.findVideo; and every call whose api.findVideo returned a Video
\* returns, without an error, a Video whose url resolves to content.
C6_StaleRegenerates ==
  /\ (Started /\ last.atStart = "stale") =>
       /\ last.outcome = "miss"
       /\ last.error = ""
       /\ last.invoked = 1
       /\ last.id \notin IndexIds(index)
  /\ (Completed /\ last.genError = "") =>
       /\ last.error = ""
       /\ last.result # NoVideo
       /\ last.bytes # <<>>

\* a call found the entry of a file that was removed, and awaits api.findVideo
C6_Witness ==
  /\ Started
  /\ last.atStart = "stale"
  /\ last.entry # <<>>
  /\ ~ last.hadFile
  /\ last.outcome = "miss"
  /\ last.id \notin IndexIds(index)

\* C7: when api.findVideo returned a Video and setFromDataUrl threw (payload
\* not matching, or writeFileSync failing), findVideo throws nothing and
\* returns that Video as it is.
C7_WriteFailureFallsBack ==
  (Completed /\ last.genError = "" /\ last.thrown # "") =>
    /\ last.error = ""
    /\ last.result = last.generated
    /\ last.result # NoVideo

\* the write failed on the filesystem
C7_Witness ==
  /\ Completed
  /\ last.thrown = "writeFileSync"
  /\ last.wf = "fail"
  /\ last.result = last.generated
  /\ last.result.url.scheme = "data"

\* C8: when api.findVideo throws, findVideo throws the same error, returns
\* no Video, and has called api.findVideo once.
C8_GenerationErrorSurfaces ==
  (Completed /\ last.genError # "") =>
    /\ last.outcome = "error"
    /\ last.error = last.genError
    /\ last.result = NoVideo
    /\ last.invoked = 1

\* the endpoint answered 500 to a request that was sent
C8_Witness ==
  /\ Completed
  /\ last.requested
  /\ last.genError = "OpenAI API error"
  /\ last.error = "OpenAI API error"

\* some blob file is new or has new content after the step
FileWritten ==
  \E p \in DOMAIN files' : p \notin DOMAIN files \/ files'[p] # files[p]

C10_AsStated ==
  (Started /\ last.follows # <<>> /\ "restart" \in last.follows[1].events) =>
    (SameAsFirst /\ last.invoked = 0)

\* C10: the same, when the first call returned the file:// url of the stored
\* entry and the index document read at the restart held that entry.
C10_SurvivesRestart ==
  (/\ Started
   /\ last.follows # <<>>
   /\ last.follows[1].cached
   /\ last.follows[1].events = { "restart" }) => (SameAsFirst /\ last.invoked = 0)

\* a hit after a restart on what the call before the restart generated
C10_Witness ==
  /\ Started
  /\ last.follows # <<>>
  /\ last.follows[1].cached
  /\ last.follows[1].invoked = 1
  /\ last.follows[1].events = { "restart" }
  /\ last.outcome = "hit"

\* C11 (as stated): every findVideo call that missed, whose api.findVideo
\* returned a Video and in which no filesystem call failed, returns a Video
\* whose id is the key and whose url is the file url of the entry just
\* stored, whatever url api.findVideo returned.
C11_AsStated ==
  ( /\ Completed
    /\ last.genError = ""
    /\ last.wf = "ok"
    /\ last.sv = "ok" )
  => /\ last.thrown = ""
     /\ last.outcome = "cached"
     /\ last.result.id = last.id
     /\ last.result.url = FileUrl(FilePathOf(last.id, png))

\* C11 (amended): the same for the calls whose api.findVideo returned a data
\* url whose base64 text holds no line terminator: the write is accepted, the
\* Video returned has the key as id and the file url of the entry stored at
\* this time, and the file holds the decoded text; width and height are those
\* api.findVideo returned.
C11_MissIsCached ==
  ( /\ Completed
    /\ last.genError = ""
    /\ last.wf = "ok"
    /\ last.sv = "ok"
    /\ \A i \in DOMAIN last.generated.url.payload :
         last.generated.url.payload[i] \notin LineTerminators )
  => /\ last.thrown = ""
     /\ last.outcome = "cached"
     /\ last.result.id = last.id
     /\ last.result.url = FileUrl(FilePathOf(last.id, png))
     /\ last.result.width = last.generated.width
     /\ last.result.height = last.generated.height
     /\ last.id \in IndexIds(index)
     /\ IndexGet(index, last.id).filePath = FilePathOf(last.id, png)
     /\ IndexGet(index, last.id).createdAt = now
     /\ FilePathOf(last.id, png) \in DOMAIN files
     /\ files[FilePathOf(last.id, png)] = Base64Decode(last.generated.url.payload)

\* a call that missed stored the image "Qg" and returned its file url
C11_Witness ==
  /\ Completed
  /\ last.genError = ""
  /\ last.generated.url = DataUrl("image", png, "base64", <<"Q","g">>)
  /\ last.outcome = "cached"
  /\ last.result.url.scheme = "file"
  /\ last.bytes = << <<66>> >>

\* the step taken is setFromDataUrl(id, _, _) and it returned
Wrote(id) ==
  /\ last'.op = "setFromDataUrl"
  /\ last'.id = id
  /\ last'.thrown = ""

\* the number of entries the index holds for id
EntriesOf(idx, id) == Cardinality({ i \in DOMAIN idx : idx[i].id = id })

\* getFileUrl(id) right after a setFromDataUrl(id, dataUrl) that returned:
\* the file url of the key and of the subtype of dataUrl, the file holding
\* the decoded payload, and one entry for id in the index
WriteThenResolve(id) ==
  LET after == getFileUrl(Store', id, now', "ok", "ok").ret
  IN Wrote(id) =>
       /\ after = FileUrl(FilePathOf(id, last'.dataUrl.format))
       /\ Resolve(files', after) = << Base64Decode(last'.dataUrl.payload) >>
       /\ EntriesOf(index', id) = 1

\* getFileUrl(id) gives the same url and the same bytes before and after
\* the step, where it gives a url both times
ResolveUnchanged(id) ==
  LET before == getFileUrl(Store, id, now, "ok", "ok").ret
      after  == getFileUrl(Store', id, now', "ok", "ok").ret
  IN (before # NullUrl /\ after # NullUrl) =>
       /\ after = before
       /\ Resolve(files', after) = Resolve(files, before)

\* C12 (as stated): after a setFromDataUrl(key, content) that returned,
\* getFileUrl(key) is the file url of a file holding the decoded payload and
\* the index has one entry for the key; and as long as getFileUrl(key) gives
\* a url, it is the one of the most recent write that returned, with those
\* bytes: no other step changes what it resolves to.
C12_AsStated ==
  [][ \A id \in Keys :
        /\ WriteThenResolve(id)
        /\ ~ Wrote(id) => ResolveUnchanged(id) ]_vars

\* C12 (amended): the same, except for a setFromDataUrl of the key whose
\* writeFileSync failed after it had truncated the file.
C12_LastWriteWins ==
  [][ \A id \in Keys :
        /\ WriteThenResolve(id)
        /\ (~ Wrote(id) /\ ~ (last'.op = "setFromDataUrl" /\ last'.wf = "torn"))
             => ResolveUnchanged(id) ]_vars

\* a key written as png is written again as jpeg: one entry, the jpeg file
C12_Witness ==
  /\ last.op = "setFromDataUrl"
  /\ last.thrown = ""
  /\ last.dataUrl.format = jpeg
  /\ last.entry # <<>>
  /\ last.entry[1].filePath = FilePathOf(last.id, png)
  /\ last.hadFile
  /\ EntriesOf(index, last.id) = 1
  /\ IndexGet(index, last.id).filePath = FilePathOf(last.id, jpeg)

\* C13 (as stated): a setFromDataUrl(id, dataUrl, ttl) that returned leaves
\* an entry whose createdAt is the time of the call and whose ttl is the
\* argument whenever one was passed, 0 included, and defaultTTL only when
\* none was passed.
C13_StoredTtl ==
  ( /\ last.op = "setFromDataUrl"
    /\ last.thrown = "" )
  => /\ last.id \in IndexIds(index)
     /\ IndexGet(index, last.id).createdAt = last.t
     /\ IndexGet(index, last.id).ttl =
          IF last.ttl = <<>> THEN defaultTTL ELSE last.ttl[1]

\* setFromDataUrl was called with ttl 0 and stored the default
C13_Witness ==
  /\ last.op = "setFromDataUrl"
  /\ last.thrown = ""
  /\ last.ttl = <<0>>
  /\ IndexGet(index, last.id).createdAt = last.t
  /\ IndexGet(index, last.id).ttl = defaultTTL

\* C14 (as stated): a setFromDataUrl(id, dataUrl) whose dataUrl is not an
\* image data url with a base64 payload throws "Invalid data URL format" and
\* leaves the index, the index document and every blob file as they were.
C14_MalformedRejected ==
  [][ ( /\ last'.op = "setFromDataUrl"
        /\ ~ (MatchesDataUrl(last'.dataUrl) /\ IsBase64(last'.dataUrl.payload)) )
      => /\ last'.thrown = "Invalid data URL format"
         /\ UNCHANGED << index, indexDoc, files >> ]_vars

\* setFromDataUrl(id, "data:image/png;base64,!!") returned over a live
\* entry of the key and left an empty file
C14_Witness ==
  /\ last.op = "setFromDataUrl"
  /\ last.dataUrl = DataUrl("image", png, "base64", <<"!","!">>)
  /\ last.thrown = ""
  /\ last.entry # <<>>
  /\ last.hadFile
  /\ files[FilePathOf(last.id, png)] = <<>>

\* the files of the entries in entries
FilesOf(entries) == { entries[i].filePath : i \in DOMAIN entries }

\* the blob files other than those in paths are as they were
OtherFilesUnchanged(paths) ==
  /\ DOMAIN files \ paths = DOMAIN files' \ paths
  /\ \A p \in DOMAIN files \ paths : files'[p] = files[p]

\* C15 (as stated): after delete(id) the key is in neither the index nor
\* the index document, also when its file was missing or unlinkSync failed;
\* delete of a key without entry changes no index, document or file.
C15_AsStated ==
  [][ last'.op = "delete" =>
        IF last'.entry # <<>>
          THEN /\ last'.id \notin IndexIds(index')
               /\ last'.id \notin IndexIds(DocEntries')
          ELSE UNCHANGED << index, indexDoc, files >> ]_vars

\* C15 (amended): after delete(id) the key is not in the index, the other
\* entries are as they were, the file of the entry is gone unless unlinkSync
\* failed and no other file is touched, also when the file was missing; the
\* index document equals the index when writing it succeeded, and is left
\* as it was, or unreadable, when that failed; delete of a key without entry
\* changes nothing.
C15_DeleteRemoves ==
  [][ last'.op = "delete" =>
        IF last'.entry # <<>>
          THEN /\ index' = IndexDelete(index, last'.id)
               /\ last'.ul = "ok" => last'.entry[1].filePath \notin DOMAIN files'
               /\ OtherFilesUnchanged({ last'.entry[1].filePath })
               /\ last'.sv = "ok" => indexDoc' = JsonDoc(index')
               /\ last'.sv = "fail" => indexDoc' = indexDoc
               /\ last'.sv = "torn" => indexDoc' = CorruptDoc
          ELSE UNCHANGED << index, indexDoc, files >> ]_vars

\* delete(id) of an entry whose file could not be removed: the entry is
\* gone from index and document, the file is still there
C15_Witness ==
  /\ last.op = "delete"
  /\ last.entry # <<>>
  /\ last.hadFile
  /\ last.ul = "fail"
  /\ last.id \notin IndexIds(index)
  /\ last.id \notin DocIds
  /\ last.entry[1].filePath \in DOMAIN files

\* the entries of the index that are expired, resp. not, at the time t
Expired(idx, t) == SelectSeq(idx, LAMBDA e : t - e.createdAt > e.ttl)

Unexpired(idx, t) == SelectSeq(idx, LAMBDA e : ~ (t - e.createdAt > e.ttl))

\* C16 (as stated): cleanup() leaves exactly the entries that were not
\* expired, unchanged and with their files as they were, and none of the
\* expired entries nor their files.
C16_AsStated ==
  [][ last'.op = "cleanup" =>
        /\ index' = Unexpired(index, now)
        /\ OtherFilesUnchanged(FilesOf(Expired(index, now)))
        /\ \A p \in FilesOf(Expired(index, now)) : p \notin DOMAIN files' ]_vars

\* C16 (amended): cleanup() leaves exactly the entries that were not
\* expired, unchanged and with their files as they were; the files of the
\* expired entries are gone when no unlinkSync failed in the call, and at
\* most as many are left as unlinkSync calls failed.
C16_CleanupRemovesExpired ==
  [][ last'.op = "cleanup" =>
        /\ index' = Unexpired(index, now)
        /\ OtherFilesUnchanged(FilesOf(Expired(index, now)))
        /\ Cardinality(FilesOf(Expired(index, now)) \cap DOMAIN files')
             <= faults' - faults ]_vars

\* cleanup() ran on two entries with their files, of which one was expired
C16_Witness ==
  /\ last.op = "cleanup"
  /\ Len(last.entry) = 2
  /\ Len(Expired(last.entry, last.t)) = 1
  /\ index = Unexpired(last.entry, last.t)
  /\ DOMAIN files = FilesOf(index)

\* every findVideo call would miss in the state after the step
AllMiss ==
  \A r \in Requests :
    ~ findVideoHead(Store', KeyOf(r), r.orientation, now', "ok", "ok").hit

\* C17 (as stated): after clear() the index and the index document hold no
\* entry, the file of every entry is gone, and a findVideo call for any
\* request misses.
C17_AsStated ==
  [][ last'.op = "clear" =>
        /\ index' = <<>>
        /\ DocEntries' = <<>>
        /\ \A p \in FilesOf(index) : p \notin DOMAIN files'
        /\ AllMiss ]_vars

\* C17 (amended): after clear() the index holds no entry and a findVideo
\* call for any request misses, whatever the entries were; the files of the
\* entries are gone except for at most as many as unlinkSync calls failed,
\* and no other file is touched; the index document is the empty index when
\* there were entries and no filesystem call failed.
C17_ClearEmpties ==
  [][ last'.op = "clear" =>
        /\ index' = <<>>
        /\ AllMiss
        /\ OtherFilesUnchanged(FilesOf(index))
        /\ Cardinality(FilesOf(index) \cap DOMAIN files') <= faults' - faults
        /\ (index # <<>> /\ faults' = faults) => indexDoc' = JsonDoc(<<>>) ]_vars

\* clear() ran on an expired and an unexpired entry and left nothing
C17_Witness ==
  /\ last.op = "clear"
  /\ Len(last.entry) = 2
  /\ Len(Expired(last.entry, last.t)) = 1
  /\ index = <<>>
  /\ indexDoc = JsonDoc(<<>>)
  /\ DOMAIN files = {}

\* C18 (as stated): getStats(), when no statSync fails, reports as size the
\* number of entries that are not expired and as totalSizeBytes the sum of
\* the sizes of the files of the entries whose file exists, and changes
\* neither index, document nor files.
C18_StatsCountLive ==
  [][ (last'.op = "getStats" /\ faults' = faults) =>
        /\ last'.stats.size = Len(Unexpired(index, now))
        /\ last'.stats.totalSizeBytes = totalSize(index, files, AllOk)
        /\ UNCHANGED << index, indexDoc, files >> ]_vars

\* getStats() counted an expired entry
C18_Witness ==
  /\ last.op = "getStats"
  /\ last.stats.size = 1
  /\ Len(index) = 1
  /\ IsExpired(index[1], now)
  /\ last.stats.totalSizeBytes = 1

\* C19: a process that starts over an unreadable index.json has an empty
\* index, and index.json and the blob files are as it found them; every
\* findVideo call then misses; and a call that misses while index.json is
\* unreadable, whose api.findVideo returns an image and whose filesystem
\* calls succeed, stores the image, returns its file url and leaves a
\* readable index.json that holds the entry.
C19_CorruptIndexStartsEmpty ==
  [][ /\ (last'.op = "restart" /\ indexDoc = CorruptDoc)
           => /\ index' = <<>>
              /\ AllMiss
              /\ UNCHANGED << indexDoc, files >>
      /\ ( /\ indexDoc = CorruptDoc
           /\ last'.op = "findVideo"
           /\ last'.outcome \in { "cached", "uncached", "error" }
           /\ last'.genError = ""
           /\ last'.wf = "ok"
           /\ last'.sv = "ok"
           /\ \A i \in DOMAIN last'.generated.url.payload :
                last'.generated.url.payload[i] \notin LineTerminators )
           => /\ last'.outcome = "cached"
              /\ last'.result.url = FileUrl(FilePathOf(last'.id, png))
              /\ last'.id \in IndexIds(index')
              /\ indexDoc' = JsonDoc(index') ]_vars

\* a process started over an unreadable index.json beside a blob file
C19_Witness ==
  /\ last.op = "restart"
  /\ indexDoc = CorruptDoc
  /\ index = <<>>
  /\ DOMAIN files # {}

\* the search terms as the key holds them: joined, stripped, lower-cased
TermsInKey(r) == toLowerCase(StripNonKeyChars(join(r.searchTerms, <<"-">>)))

\* every term of the request is a non-empty string of lower-case letters
\* and digits
PlainTerms(r) ==
  \A i \in DOMAIN r.searchTerms :
    /\ r.searchTerms[i] # <<>>
    /\ \A j \in DOMAIN r.searchTerms[i] :
         r.searchTerms[i][j] \in Range(LowerChars) \cup Range(DigitChars)

\* C20 (as stated): two requests have the same key exactly when they have
\* the same ordered list of search terms and the same orientation.
C20_AsStated ==
  last.op = "cacheKey" => (last.id = last.id2 <=> last.req = last.req2)

\* C20 (amended): equal requests have the same key; two requests have the
\* same key exactly when their orientations are equal and their search
\* terms, joined by "-", stripped of the characters outside [a-z0-9-] and
\* lower-cased, are the same string; so requests that differ in the
\* orientation, and requests of non-empty terms of lower-case letters and
\* digits that differ in the ordered list of terms, have different keys.
C20_KeysDistinguish ==
  last.op = "cacheKey" =>
    /\ last.req = last.req2 => last.id = last.id2
    /\ last.id = last.id2 <=>
         ( /\ last.req.orientation = last.req2.orientation
           /\ TermsInKey(last.req) = TermsInKey(last.req2) )
    /\ (PlainTerms(last.req) /\ PlainTerms(last.req2) /\ last.req # last.req2)
         => last.id # last.id2

\* the keys of two requests whose terms are the same in another order
C20_Witness ==
  /\ last.op = "cacheKey"
  /\ last.req.searchTerms = << <<"a">>, <<"b">> >>
  /\ last.req2.searchTerms = << <<"b">>, <<"a">> >>
  /\ last.req.orientation = last.req2.orientation
  /\ last.id # last.id2

\* C21 (as stated): the key of a request without search terms is the
\* orientation tag and nothing else.
C21_EmptyTermsKey ==
  (last.op = "cacheKey" /\ last.req.searchTerms = <<>>)
    => last.id = last.req.orientation

\* the key derived for no search terms and portrait is "-portrait"
C21_Witness ==
  /\ last.op = "cacheKey"
  /\ last.req.searchTerms = <<>>
  /\ last.req.orientation = portrait
  /\ last.id = <<"-">> \o portrait

\* C22: a findVideo call of the wrapper that missed ends as api.findVideo
\* ends.  Without API key no request is issued and the error is "OpenAI API
\* key not set"; a 401 gives "Invalid OpenAI API key", another status that
\* is not OK "OpenAI API error", a body without image data "No image data
\* returned from OpenAI", a rejected fetch its own error; in each of these
\* api.findVideo returns no Video and the caller gets that error and no
\* Video; a Video is returned only for an OK response with image data.
C22_NoAssetWithoutImage ==
  Completed =>
    /\ last.requested <=> API_KEY # ""
    /\ ~ last.requested => last.genError = "OpenAI API key not set"
    /\ (last.requested /\ last.resp.status = 401)
         => last.genError = "Invalid OpenAI API key"
    /\ (last.requested /\ last.resp.status \notin { 0, 200, 401 })
         => last.genError = "OpenAI API error"
    /\ (last.requested /\ last.resp.status = 0) => last.genError = "fetch failed"
    /\ (last.requested /\ last.resp.status = 200 /\ last.resp.b64 = <<>>)
         => last.genError = "No image data returned from OpenAI"
    /\ (last.requested /\ last.resp.status = 200 /\ last.resp.b64 # <<>>)
         => /\ last.genError = ""
            /\ last.generated.url = DataUrl("image", png, "base64", last.resp.b64)
    /\ last.genError # ""
         => /\ last.generated = NoVideo
            /\ last.outcome = "error"
            /\ last.error = last.genError
            /\ last.result = NoVideo

\* the endpoint answered 500 and the caller got "OpenAI API error"
C22_Witness ==
  /\ Completed
  /\ last.requested
  /\ last.resp.status = 500
  /\ last.error = "OpenAI API error"
  /\ last.result = NoVideo

\* the entries of the keys other than id are after the step as before
OtherEntriesKept(id) ==
  \A k \in Keys \ { id } : EntryOf(index', k) = EntryOf(index, k)

\* the entry of id is gone after the step
Dropped(id) == id \in IndexIds(index) /\ id \notin IndexIds(index')

\* no findVideo call is in flight
AllIdle == \A c \in Calls : calls[c].pc = "idle"

\* C23 (as stated): once all calls have completed, every key the index
\* holds (the keys written and not deleted since, see C23_NoLostUpdate) has
\* an entry in the index document as well.
C23_AsStated == AllIdle => IndexIds(index) \subseteq DocIds

\* C23 (amended): in every interleaving of findVideo calls for two keys,
\* cleanup() and delete(id), a step changes the entry of no key but its
\* own: the end of a call whose write returned leaves the entry of its key,
\* created now, and any other end leaves the entry as it was; the start of a
\* call drops the entry of its key only when it is expired or its file is
\* missing; delete(id) touches the entry of id only and cleanup() the
\* expired ones only; so the index holds exactly the keys written and not
\* deleted since.  The index document is the whole index after every step
\* that changed the index and in which no filesystem call failed.
C23_NoLostUpdate ==
  [][ /\ (last'.op = "findVideo" /\ last'.outcome \in { "cached", "uncached", "error" })
           => /\ OtherEntriesKept(last'.id)
              /\ IF last'.genError = "" /\ last'.thrown = ""
                   THEN /\ last'.id \in IndexIds(index')
                        /\ IndexGet(index', last'.id).createdAt = now
                   ELSE EntryOf(index', last'.id) = EntryOf(index, last'.id)
      /\ (last'.op = "findVideo" /\ last'.outcome \in { "hit", "miss" })
           => /\ OtherEntriesKept(last'.id)
              /\ \/ EntryOf(index', last'.id) = EntryOf(index, last'.id)
                 \/ /\ Dropped(last'.id)
                    /\ \/ IsExpired(IndexGet(index, last'.id), now)
                       \/ IndexGet(index, last'.id).filePath \notin DOMAIN files
      /\ last'.op = "delete" => OtherEntriesKept(last'.id)
      /\ last'.op = "cleanup" => index' = Unexpired(index, now)
      /\ last'.op \notin { "findVideo", "delete", "cleanup" } => index' = index
      /\ (index' # index /\ faults' = faults) => indexDoc' = JsonDoc(index') ]_vars

\* a call for one key has stored its image and returned while a call for the
\* other key is still waiting for api.findVideo; both keys are in the index
\* and in the index document
C23_Witness ==
  /\ Completed
  /\ last.outcome = "cached"
  /\ Len(index) = 2
  /\ IndexIds(index) = DocIds
  /\ \E c \in Calls : calls[c].pc = "generating" /\ KeyOf(calls[c].req) # last.id

\* the step is a mutating operation that returned: a write that did not
\* throw, or a delete, purge, cleanup or clear that removed an entry
Mutated ==
  \/ last'.op = "setFromDataUrl" /\ last'.thrown = ""
  \/ last'.op \in { "has", "delete", "cleanup", "clear" } /\ index' # index

\* C24 (as stated): after every completed mutating operation the index
\* document equals the in-memory index, also when persisting it fails.
C24_AsStated == [][ Mutated => indexDoc' = JsonDoc(index') ]_vars

\* C24 (amended): a completed write, delete or purge rewrites the document
\* with the whole index when writeJsonSync succeeds, leaves the document as
\* it was when writeJsonSync fails, and leaves it unreadable when the write
\* is torn; a cleanup or clear without a filesystem failure leaves the
\* document equal to the index; a step that mutates nothing leaves the
\* document alone.  The document is read at construction only: a restart
\* loads the entries of the document, and after any other step every entry
\* of the index was in the index before or was written by the step.
C24_DocFollowsIndex ==
  [][ /\ (Mutated /\ last'.op \in { "setFromDataUrl", "has", "delete" })
           => indexDoc' = CASE last'.sv = "ok"   -> JsonDoc(index')
                            [] last'.sv = "fail" -> indexDoc
                            [] last'.sv = "torn" -> CorruptDoc
      /\ (Mutated /\ last'.op \in { "cleanup", "clear" } /\ faults' = faults)
           => indexDoc' = JsonDoc(index')
      /\ ~ Mutated => indexDoc' = indexDoc
      /\ last'.op = "restart" => index' = DocEntries
      /\ last'.op # "restart"
           => \A i \in DOMAIN index' :
                \/ \E j \in DOMAIN index : index'[i] = index[j]
                \/ /\ last'.op = "setFromDataUrl"
                   /\ index'[i].id = last'.id
                   /\ index'[i].createdAt = now ]_vars

\* a lookup has purged the expired entry of its key, the other key keeps
\* its entry, and the document written holds the index
C24_Witness ==
  /\ last.op = "has"
  /\ last.entry # <<>>
  /\ last.id \notin IndexIds(index)
  /\ Len(index) = 1
  /\ last.sv = "ok"
  /\ indexDoc = JsonDoc(index)

\* C25: while no filesystem call has failed, every blob file of the cache
\* directory is the file of an index entry: no operation leaves an
\* unreferenced file behind, also not a write that replaces the content of a
\* key by content of another media subtype.
C25_NoOrphans == faults = 0 => DOMAIN files \subseteq FilesOf(index)

\* a key holding a png was written again with a jpeg, no filesystem call
\* failed: the entry names the .jpeg file and the .png file is still there
C25_Witness ==
  /\ faults = 0
  /\ last.op = "setFromDataUrl"
  /\ last.thrown = ""
  /\ last.dataUrl.format = jpeg
  /\ FilesOf(index) = { FilePathOf(last.id, jpeg) }
  /\ DOMAIN files = { FilePathOf(last.id, jpeg), FilePathOf(last.id, png) }

\* the entries the index holds for id
EntriesFor(idx, id) == SelectSeq(idx, LAMBDA e : e.id = id)

\* C26: a findVideo call that generated an image and wrote it leaves one
\* entry for its key, returns the key as id and the file:// url of the
\* key's png file, and that file holds the bytes this call generated; when
\* an overlapping call for the same key wrote first, the Video that call
\* returned has the same id and the same url, which now resolves to the
\* bytes of this later write.
C26_OverlapSameKey ==
  [][ (last'.op = "findVideo" /\ last'.outcome = "cached")
        => LET mine == << Base64Decode(last'.generated.url.payload) >>
               earlier == prev[last'.req]
           IN /\ Len(EntriesFor(index', last'.id)) = 1
              /\ last'.result.id = last'.id
              /\ last'.result.url = FileUrl(FilePathOf(last'.id, png))
              /\ Resolve(files', last'.result.url) = mine
              /\ (earlier.set /\ earlier.path # <<>>)
                   => /\ last'.result.id = earlier.id
                      /\ last'.result.url = FileUrl(earlier.path[1])
                      /\ Resolve(files', FileUrl(earlier.path[1])) = mine ]_vars

\* a call that missed has written its image over the file that an overlapping
\* call for the same key wrote while this one was waiting for its image
C26_Witness ==
  /\ Completed
  /\ last.outcome = "cached"
  /\ last.entry # <<>>
  /\ last.hadFile
  /\ last.generated.url.payload = <<"Q","g">>
  /\ Len(index) = 1
  /\ Resolve(files, last.result.url) = << Base64Decode(<<"Q","g">>) >>

====
